---- MODULE Spec2Model ----
(***************************************************************************)
(* A model of the mnist package: the IDX decoder of dataset.go             *)
(* (readIntensities, readLabels, loadDataSet), the DataSet views           *)
(* (IntensityVectors, LabelVectors, NumCorrect, CorrectnessHistogram) and  *)
(* ReconstructionGrid of reconstruction.go.                                *)
(*                                                                         *)
(* Byte streams are sequences of integers 0..255.  A float64 is a record   *)
(* [e, m]: m is the 53-bit significand, most significant bit first, and    *)
(* the value is m * 2^(e-52); zero has the empty significand.  Go slices   *)
(* of float64 are addresses into heap, so that two slices sharing a        *)
(* backing array are the same address.                                     *)
(***************************************************************************)
EXTENDS Integers, Sequences, FiniteSets, TLC

VARIABLES
    imgStream,    \* the decompressed image file handed to readIntensities
    lblStream,    \* the decompressed label file handed to readLabels
    pc,           \* where loadDataSet is: start, labels, assemble, loaded, panic
    intensities,  \* loadDataSet's local intensities ([][]uint8)
    w,            \* loadDataSet's local w
    h,            \* loadDataSet's local h
    labels,       \* loadDataSet's local labels ([]int)
    panicValue,   \* the value loadDataSet or a view panicked with, or NoValue
    heap,         \* backing arrays of []float64 slices: address -> sequence
    dataSet,      \* the DataSet loadDataSet returned, or NoValue
    ret,          \* what the last view of the DataSet returned, if it was last
    writes,       \* how many writes the caller made into returned vectors
    grid          \* ReconstructionGrid's arguments, draws and image, if it
                  \* was the last call

vars == <<imgStream, lblStream, pc, intensities, w, h, labels, panicValue,
          heap, dataSet, ret, writes, grid>>

NoValue == [kind |-> "none"]

(***************************************************************************)
(* Bounds of the input families.                                           *)
(***************************************************************************)
MaxN == 2
MaxW == 2
MaxH == 2
MaxStart == 2

Min(a, b) == IF a <= b THEN a ELSE b

(***************************************************************************)
(* float64 arithmetic, as far as the package uses it: the quotient         *)
(* float64(x) / 255.0, the product pixel * 0xff and the conversion         *)
(* uint8(f).  Quotient and product are rounded to nearest, ties to even.   *)
(* The 53-bit significand is held as three limbs of 17, 18 and 18 bits,    *)
(* the most significant first.                                             *)
(***************************************************************************)
Limb == 262144

RECURSIVE BitsToInt(_)
BitsToInt(bits) ==
    IF bits = <<>> THEN 0
    ELSE 2 * BitsToInt(SubSeq(bits, 1, Len(bits) - 1)) + bits[Len(bits)]

\* The number of bits of n.
RECURSIVE BitLen(_)
BitLen(n) == IF n = 0 THEN 0 ELSE 1 + BitLen(n \div 2)

F64Zero == [e |-> 0, m |-> <<0, 0, 0>>]
F64One == [e |-> 0, m |-> <<65536, 0, 0>>]

\* The significand m at exponent e, rounded up by one unit when up.
F64Round(e, m, up) ==
    IF ~up THEN [e |-> e, m |-> m]
    ELSE IF m[3] + 1 < Limb THEN [e |-> e, m |-> <<m[1], m[2], m[3] + 1>>]
    ELSE IF m[2] + 1 < Limb THEN [e |-> e, m |-> <<m[1], m[2] + 1, 0>>]
    ELSE IF m[1] + 1 < 131072 THEN [e |-> e, m |-> <<m[1] + 1, 0, 0>>]
    ELSE [e |-> e + 1, m |-> <<65536, 0, 0>>]

\* 2^k modulo d.
RECURSIVE Pow2Mod(_, _)
Pow2Mod(k, d) ==
    IF k = 0 THEN 1 % d
    ELSE IF k % 2 = 0 THEN (Pow2Mod(k \div 2, d) * Pow2Mod(k \div 2, d)) % d
    ELSE (2 * Pow2Mod(k - 1, d)) % d

\* The remainder of the long division of r by d after k quotient bits.
RemAt(r, d, k) == (r * Pow2Mod(k, d)) % d

\* n quotient bits of r/d for 0 <= r < d, and the remainder left.
DivBits(r, d, n) ==
    [bits |-> [k \in 1..n |-> IF 2 * RemAt(r, d, k - 1) >= d THEN 1 ELSE 0],
     rem |-> RemAt(r, d, n)]

RECURSIVE ScaleUp(_, _)
ScaleUp(x, d) == IF x >= d THEN 0 ELSE 1 + ScaleUp(2 * x, d)

RECURSIVE ScaleDown(_, _)
ScaleDown(x, d) == IF x < 2 * d THEN 0 ELSE 1 + ScaleDown(x, 2 * d)

\* float64(x) / float64(d) for integers 0 <= x, 0 < d that float64 holds
\* exactly: the quotient rounded to 53 bits, ties to even.
F64QuoInt(x, d) ==
    IF x = 0 THEN F64Zero
    ELSE LET up == ScaleUp(x, d)
             down == ScaleDown(x, d)
             num == x * 2^up
             den == d * 2^down
             q == DivBits(num - den, den, 52)
             keep == <<1>> \o q.bits
             roundUp == \/ 2 * q.rem > den
                        \/ 2 * q.rem = den /\ keep[53] = 1
         IN F64Round(down - up,
                     <<BitsToInt(SubSeq(keep, 1, 17)),
                       BitsToInt(SubSeq(keep, 18, 35)),
                       BitsToInt(SubSeq(keep, 36, 53))>>,
                     roundUp)

\* f * float64(c) for an integer 0 < c < 2^12 that float64 holds exactly:
\* the limbs times c, shifted back to 53 bits and rounded.
F64MulInt(f, c) ==
    IF f.m = F64Zero.m THEN F64Zero
    ELSE LET p0 == f.m[3] * c
             p1 == f.m[2] * c + (p0 \div Limb)
             p2 == f.m[1] * c + (p1 \div Limb)
             q0 == p0 % Limb
             q1 == p1 % Limb
             s == BitLen(p2) - 17
             cut == 2^s
             fill == 2^(18 - s)
             tail == q0 % cut
             k0 == (q0 \div cut) + (q1 % cut) * fill
             k1 == (q1 \div cut) + (p2 % cut) * fill
             k2 == p2 \div cut
             roundUp == /\ s > 0
                        /\ \/ 2 * tail > cut
                           \/ 2 * tail = cut /\ k0 % 2 = 1
         IN F64Round(f.e + s, <<k2, k1, k0>>, roundUp)

\* f * 0.5: exact, the exponent drops by one.
F64Half(f) == IF f.m = F64Zero.m THEN F64Zero ELSE [e |-> f.e - 1, m |-> f.m]

\* A uint8 conversion that rounds to the nearest integer.
F64ToUint8Nearest(f) ==
    IF f.m = F64Zero.m \/ f.e < -1 THEN 0
    ELSE (f.m[1] \div 2^(16 - f.e)) + ((f.m[1] \div 2^(15 - f.e)) % 2)

\* uint8(f) for 0 <= f < 256: Go truncates toward zero.
F64ToUint8(f) ==
    IF f.m = F64Zero.m \/ f.e < 0 THEN 0 ELSE f.m[1] \div 2^(16 - f.e)

(***************************************************************************)
(* The readers of dataset.go.  A reader is the stream and a position in    *)
(* it; an error is its message, "nil" for none.                            *)
(***************************************************************************)
\* bufio.Reader.Discard(n): skips n bytes, io.EOF when fewer are left.
Discard(s, pos, n) ==
    IF Len(s) - pos >= n THEN [pos |-> pos + n, err |-> "nil"]
    ELSE [pos |-> Len(s), err |-> "EOF"]

BigEndianUint32(b) == ((b[1] * 256 + b[2]) * 256 + b[3]) * 256 + b[4]

\* A binary.Read that reports every short read as io.EOF.
binaryReadPlainEOF(s, pos) ==
    IF Len(s) - pos >= 4
    THEN [val |-> BigEndianUint32(SubSeq(s, pos + 1, pos + 4)),
          pos |-> pos + 4, err |-> "nil"]
    ELSE [val |-> 0, pos |-> Len(s), err |-> "EOF"]

\* binary.Read of one uint32: io.ReadFull of 4 bytes, then the decoding.
binaryRead(s, pos) ==
    IF Len(s) - pos >= 4
    THEN [val |-> BigEndianUint32(SubSeq(s, pos + 1, pos + 4)),
          pos |-> pos + 4, err |-> "nil"]
    ELSE [val |-> 0, pos |-> Len(s),
          err |-> IF Len(s) = pos THEN "EOF" ELSE "unexpected EOF"]

\* The loop over params of readIntensities.
RECURSIVE readParams(_, _, _)
readParams(s, pos, params) ==
    IF Len(params) = 3 THEN [params |-> params, pos |-> pos, err |-> "nil"]
    ELSE LET r == binaryRead(s, pos)
         IN IF r.err # "nil"
            THEN [params |-> params, pos |-> r.pos, err |-> r.err]
            ELSE readParams(s, r.pos, Append(params, r.val))

\* A record loop that stops at a short record and keeps what it has.
RECURSIVE readRecordsPartial(_, _, _, _, _)
readRecordsPartial(s, pos, count, size, results) ==
    IF Len(results) = count \/ Len(s) - pos < size
    THEN [results |-> results, err |-> "nil"]
    ELSE readRecordsPartial(s, pos + size, count, size,
                            Append(results, SubSeq(s, pos + 1, pos + size)))

\* The loop over results of readIntensities: io.Copy from a LimitedReader of
\* size bytes ends without an error at the end of the stream.
RECURSIVE readRecords(_, _, _, _, _)
readRecords(s, pos, count, size, results) ==
    IF Len(results) = count THEN [results |-> results, err |-> "nil"]
    ELSE LET n == Min(size, Len(s) - pos)
         IN IF n < size
            THEN [results |-> <<>>, err |-> "not enough data for image"]
            ELSE LET buffer == SubSeq(s, pos + 1, pos + n)
                     vec == [i \in 1..size |-> buffer[i]]
                 IN readRecords(s, pos + n, count, size, Append(results, vec))

\* A readIntensities that takes the height before the width.
readIntensitiesHeightFirst(reader) ==
    LET d == Discard(reader, 0, 4)
        p == readParams(reader, d.pos, <<>>)
        r == readRecords(reader, p.pos, p.params[1],
                         p.params[2] * p.params[3], <<>>)
    IN IF d.err # "nil" \/ p.err # "nil" \/ r.err # "nil"
       THEN [results |-> <<>>, width |-> 0, height |-> 0,
             err |-> IF d.err # "nil" THEN d.err
                     ELSE IF p.err # "nil" THEN p.err ELSE r.err]
       ELSE [results |-> r.results, width |-> p.params[3],
             height |-> p.params[2], err |-> "nil"]

readIntensities(reader) ==
    LET d == Discard(reader, 0, 4)
        p == readParams(reader, d.pos, <<>>)
        count == p.params[1]
        width == p.params[2]
        height == p.params[3]
        r == readRecords(reader, p.pos, count, width * height, <<>>)
    IN IF d.err # "nil"
       THEN [results |-> <<>>, width |-> 0, height |-> 0, err |-> d.err]
       ELSE IF p.err # "nil"
       THEN [results |-> <<>>, width |-> 0, height |-> 0, err |-> p.err]
       ELSE IF r.err # "nil"
       THEN [results |-> <<>>, width |-> 0, height |-> 0, err |-> r.err]
       ELSE [results |-> r.results, width |-> width, height |-> height,
             err |-> "nil"]

\* A label loop that fails when bytes are left after the last label.
RECURSIVE readLabelBytesExact(_, _, _, _)
readLabelBytesExact(s, pos, count, res) ==
    IF Len(res) = count
    THEN IF pos < Len(s) THEN [res |-> <<>>, err |-> "count mismatch"]
         ELSE [res |-> res, err |-> "nil"]
    ELSE IF pos >= Len(s) THEN [res |-> <<>>, err |-> "EOF"]
    ELSE readLabelBytesExact(s, pos + 1, count, Append(res, s[pos + 1]))

\* The loop over res of readLabels: one ReadByte per label.
RECURSIVE readLabelBytes(_, _, _, _)
readLabelBytes(s, pos, count, res) ==
    IF Len(res) = count THEN [res |-> res, err |-> "nil"]
    ELSE IF pos >= Len(s) THEN [res |-> <<>>, err |-> "EOF"]
    ELSE readLabelBytes(s, pos + 1, count, Append(res, s[pos + 1]))

\* A readLabels that decodes the header's count and insists on it.
readLabelsCheckCount(reader, count) ==
    LET d == Discard(reader, 0, 8)
    IN IF d.err # "nil" THEN [res |-> <<>>, err |-> d.err]
       ELSE IF BigEndianUint32(SubSeq(reader, 5, 8)) # count
       THEN [res |-> <<>>, err |-> "count mismatch"]
       ELSE readLabelBytes(reader, d.pos, count, <<>>)

readLabels(reader, count) ==
    LET d == Discard(reader, 0, 8)
    IN IF d.err # "nil" THEN [res |-> <<>>, err |-> d.err]
       ELSE readLabelBytes(reader, d.pos, count, <<>>)

(***************************************************************************)
(* The input families: IDX files as the MNIST distribution lays them out   *)
(* (magic, big-endian counts and dimensions, then the payload), and every  *)
(* prefix of such a file.                                                  *)
(***************************************************************************)
PixelVals == <<0, 255, 128, 64, 200, 10, 33, 67>>
LabelVals == <<3, 7, 0, 9, 10, 255>>
ImageMagics == {<<0, 0, 8, 3>>, <<1, 2, 3, 4>>}
LabelMagic == <<0, 0, 8, 1>>

Ramp(vals, start, len) ==
    [k \in 1..len |-> vals[((start + k - 2) % Len(vals)) + 1]]

Uint32Bytes(n) ==
    <<n \div 16777216, (n \div 65536) % 256, (n \div 256) % 256, n % 256>>

Prefixes(s) == {SubSeq(s, 1, k) : k \in 0..Len(s)}

ImageFile(magic, n, wd, ht, start) ==
    magic \o Uint32Bytes(n) \o Uint32Bytes(wd) \o Uint32Bytes(ht)
          \o Ramp(PixelVals, start, n * wd * ht)

LabelFile(declared, start, len) ==
    LabelMagic \o Uint32Bytes(declared) \o Ramp(LabelVals, start, len)

ImageStreams ==
    UNION {Prefixes(ImageFile(magic, n, wd, ht, start)) :
             magic \in ImageMagics, n \in 0..MaxN, wd \in 0..MaxW,
             ht \in 0..MaxH, start \in 1..MaxStart}

LabelStreams ==
    UNION {Prefixes(LabelFile(declared, start, MaxN + 1)) :
             declared \in 0..(MaxN + 1), start \in 1..MaxStart}

(***************************************************************************)
(* loadDataSet, in its three parts: the images are read, the labels are    *)
(* read, the DataSet is built.                                             *)
(***************************************************************************)
Panic(msg, err) == [kind |-> "panic", msg |-> msg, err |-> err]

InitWith(streams) ==
    /\ imgStream \in streams
    /\ lblStream = <<>>
    /\ pc = "start"
    /\ intensities = <<>>
    /\ w = 0
    /\ h = 0
    /\ labels = <<>>
    /\ panicValue = NoValue
    /\ heap = <<>>
    /\ dataSet = NoValue
    /\ ret = NoValue
    /\ writes = 0
    /\ grid = NoValue

\* intensities, w, h, err := readIntensities(...): all four are assigned,
\* then err decides.
LoadReadImages ==
    /\ pc = "start"
    /\ LET r == readIntensities(imgStream)
       IN /\ intensities' = r.results
          /\ w' = r.width
          /\ h' = r.height
          /\ IF r.err # "nil"
             THEN /\ pc' = "panic"
                  /\ panicValue' = Panic("failed to read images: ", r.err)
             ELSE /\ pc' = "labels"
                  /\ UNCHANGED panicValue
    /\ UNCHANGED <<imgStream, lblStream, labels, heap, dataSet, ret, writes,
                   grid>>

\* labels, err := readLabels(assetReader(labelFilename), len(intensities)).
LoadReadLabels(streams) ==
    /\ pc = "labels"
    /\ \E s \in streams :
         /\ lblStream' = s
         /\ LET r == readLabels(s, Len(intensities))
            IN /\ labels' = r.res
               /\ IF r.err # "nil"
                  THEN /\ pc' = "panic"
                       /\ panicValue' = Panic("failed to read labels: ", r.err)
                  ELSE /\ pc' = "assemble"
                       /\ UNCHANGED panicValue
    /\ UNCHANGED <<imgStream, intensities, w, h, heap, dataSet, ret, writes,
                   grid>>

\* float64(x) / 255.0 for every uint8 x, computed once.
Normalized == [x \in 0..255 |-> F64QuoInt(x, 255)]

\* floats[i] = float64(x) / 255.0 for the bytes of one record.
Floats(record) == [i \in 1..Len(record) |-> Normalized[record[i]]]

\* Samples that take their labels from the end.
SamplesLabelsReversed(ints, labs) ==
    [i \in 1..Len(ints) |->
       [Intensities |-> i, Label |-> labs[Len(labs) + 1 - i]]]

\* Sample i of the DataSet: its Intensities is the slice at address i.
Samples(ints, labs) ==
    [i \in 1..Len(ints) |-> [Intensities |-> i, Label |-> labs[i]]]

LoadAssemble ==
    /\ pc = "assemble"
    /\ pc' = "loaded"
    /\ heap' = [i \in 1..Len(intensities) |-> Floats(intensities[i])]
    /\ dataSet' = [kind |-> "DataSet",
                   Samples |-> Samples(intensities, labels),
                   Width |-> w, Height |-> h]
    /\ UNCHANGED <<imgStream, lblStream, intensities, w, h, labels,
                   panicValue, ret, writes, grid>>

Init == InitWith(ImageStreams)

Next ==
    \/ LoadReadImages
    \/ LoadReadLabels(LabelStreams)
    \/ LoadAssemble

Spec == Init /\ [][Next]_vars

(***************************************************************************)
(* The views of a loaded DataSet.  The DataSet's slices are the addresses  *)
(* 1..len(Samples); arrays no longer referenced are dropped from heap.     *)
(***************************************************************************)
MaxWrites == 1
ViewMaxN == 2
ViewMaxW == 2

SampleVec(i) == heap[dataSet.Samples[i].Intensities]

DataSetHeap == [a \in 1..Len(dataSet.Samples) |-> heap[a]]

Vectors(from, val) == [kind |-> "vectors", from |-> from, val |-> val]

\* res[i] = sample.Intensities: the slice itself, not a copy.
IntensityVectors ==
    /\ pc = "loaded"
    /\ ret' = Vectors("IntensityVectors",
                      [i \in 1..Len(dataSet.Samples) |->
                         dataSet.Samples[i].Intensities])
    /\ heap' = DataSetHeap
    /\ grid' = NoValue
    /\ UNCHANGED <<imgStream, lblStream, pc, intensities, w, h, labels,
                   panicValue, dataSet, writes>>

\* An allocation that hands out sample i's own array.
SampleSlice(n, i) == i

\* The address of the i-th array allocated while n arrays are live.
NewSlice(n, i) == n + i

\* make([]float64, 10), then res[i][label] = 1.
LabelVector(label) ==
    [k \in 1..10 |-> IF k = label + 1 THEN F64One ELSE F64Zero]

\* res[i][sample.Label] = 1 is an index out of range for a Label over 9.
LabelVectors ==
    /\ pc = "loaded"
    /\ LET n == Len(dataSet.Samples)
           res == [i \in 1..n |-> NewSlice(n, i)]
       IN IF \E i \in 1..n : dataSet.Samples[i].Label \notin 0..9
          THEN /\ pc' = "panic"
               /\ panicValue' = Panic("runtime error: ", "index out of range")
               /\ heap' = DataSetHeap
               /\ ret' = NoValue
          ELSE /\ heap' =
                    [a \in (1..n) \cup {res[i] : i \in 1..n} |->
                       IF \E i \in 1..n : res[i] = a
                       THEN LabelVector(dataSet.Samples[
                                CHOOSE i \in 1..n : res[i] = a].Label)
                       ELSE heap[a]]
               /\ ret' = Vectors("LabelVectors", res)
               /\ UNCHANGED <<pc, panicValue>>
    /\ grid' = NoValue
    /\ UNCHANGED <<imgStream, lblStream, intensities, w, h, labels, dataSet,
                   writes>>

\* The Classifier arguments: two that answer one digit whatever the image,
\* one that looks at the first pixel.
Classifiers == {"three", "seven", "first"}

Classify(c, data) ==
    IF c = "three" THEN 3
    ELSE IF c = "seven" THEN 7
    ELSE IF data # <<>> /\ data[1].m # F64Zero.m /\ data[1].e >= -1 THEN 9
    ELSE 0

NumCorrect ==
    /\ pc = "loaded"
    /\ \E c \in Classifiers :
         ret' = [kind |-> "int", from |-> "NumCorrect",
                 val |-> Cardinality(
                     {i \in 1..Len(dataSet.Samples) :
                        Classify(c, SampleVec(i)) = dataSet.Samples[i].Label})]
    /\ heap' = DataSetHeap
    /\ grid' = NoValue
    /\ UNCHANGED <<imgStream, lblStream, pc, intensities, w, h, labels,
                   panicValue, dataSet, writes>>

\* One part of the histogram: 100*correct/total to two decimals, in
\* hundredths; 0/0 is NaN.
HistogramPart(correct, total) ==
    IF total = 0 THEN "NaN" ELSE (20000 * correct + total) \div (2 * total)

\* correct[sample.Label] is an index out of range for a Label over 9.
CorrectnessHistogram ==
    /\ pc = "loaded"
    /\ \E c \in Classifiers :
         LET all == 1..Len(dataSet.Samples)
             total(d) == Cardinality({i \in all : dataSet.Samples[i].Label = d})
             correct(d) ==
                 Cardinality({i \in all :
                                /\ dataSet.Samples[i].Label = d
                                /\ Classify(c, SampleVec(i)) = d})
         IN IF \E i \in all : dataSet.Samples[i].Label \notin 0..9
            THEN /\ pc' = "panic"
                 /\ panicValue' = Panic("runtime error: ", "index out of range")
                 /\ ret' = NoValue
            ELSE /\ ret' = [kind |-> "string", from |-> "CorrectnessHistogram",
                            val |-> [d \in 0..9 |->
                                       HistogramPart(correct(d), total(d))]]
                 /\ UNCHANGED <<pc, panicValue>>
    /\ heap' = DataSetHeap
    /\ grid' = NoValue
    /\ UNCHANGED <<imgStream, lblStream, intensities, w, h, labels, dataSet,
                   writes>>

\* The caller stores 0.5 in an element of a vector the last call returned.
CallerWrite ==
    /\ pc = "loaded"
    /\ ret.kind = "vectors"
    /\ writes < MaxWrites
    /\ \E i \in DOMAIN ret.val :
         \E k \in DOMAIN heap[ret.val[i]] :
           heap' = [heap EXCEPT ![ret.val[i]][k] = F64Half(F64One)]
    /\ writes' = writes + 1
    /\ UNCHANGED <<imgStream, lblStream, pc, intensities, w, h, labels,
                   panicValue, dataSet, ret, grid>>

(***************************************************************************)
(* ReconstructionGrid of reconstruction.go.  The image is its rectangle    *)
(* and its pixels, a function of the points of the rectangle; Set outside  *)
(* the rectangle does nothing.                                             *)
(***************************************************************************)
gridSpacing == 4
smallGridSpace == 2
gridBackground == [R |-> 86, G |-> 188, B |-> 212, A |-> 255]
MaxCells == 4

\* color.Gray{Y: y} as image.RGBA stores it.
Gray(y) == [R |-> y, G |-> y, B |-> y, A |-> 255]

\* color.Gray{Y: 0xff - uint8(pixel*0xff)}
PixelColor(pixel) == Gray(255 - F64ToUint8(F64MulInt(pixel, 255)))

\* The Reconstructor arguments: the image itself, the image at half the
\* intensity, a black image, and one that returns a pixel too few.
Reconstructors == {"identity", "halve", "ones", "short"}

Reconstruct(r, img) ==
    IF r = "identity" THEN img
    ELSE IF r = "halve" THEN [i \in 1..Len(img) |-> F64Half(img[i])]
    ELSE IF r = "ones" THEN [i \in 1..Len(img) |-> F64One]
    ELSE SubSeq(img, 1, Len(img) - 1)

\* A cell origin that leaves out the gap between the two bitmaps of a cell.
CellXNoGap(width, col) == gridSpacing * (col + 1) + col * (width * 2)

ImageWidth(width, cols) ==
    gridSpacing * (cols + 1) + cols * (width * 2 + smallGridSpace)
ImageHeight(height, rows) == gridSpacing * (rows + 1) + rows * height
CellX(width, col) ==
    gridSpacing * (col + 1) + col * (width * 2 + smallGridSpace)
CellY(height, row) == gridSpacing * (row + 1) + row * height

\* The points the two loops over ry and rx pass to img.Set from (x, y).
BitmapPoints(x, y, width, height) ==
    {<<x + rx, y + ry>> : rx \in 0..(width - 1), ry \in 0..(height - 1)}

\* The two loops over ry and rx: pixelIdx runs row by row.
DrawBitmap(pix, x, y, width, height, vec) ==
    [p \in BitmapPoints(x, y, width, height) \cap DOMAIN pix |->
       PixelColor(vec[(p[2] - y) * width + (p[1] - x) + 1])] @@ pix

\* Cell k of the loops over row and col, counted from 0.
CellRow(k, cols) == k \div cols
CellCol(k, cols) == k % cols

\* The loops over row and col from cell k on; picks[k + 1] is the sample
\* rand.Intn chose for cell k.
RECURSIVE DrawCells(_, _, _, _, _, _)
DrawCells(pix, k, rows, cols, r, picks) ==
    IF k = rows * cols THEN pix
    ELSE LET x == CellX(dataSet.Width, CellCol(k, cols))
             y == CellY(dataSet.Height, CellRow(k, cols))
             sample == SampleVec(picks[k + 1])
             original == DrawBitmap(pix, x, y, dataSet.Width, dataSet.Height,
                                    sample)
             both == DrawBitmap(original,
                                x + dataSet.Width + smallGridSpace, y,
                                dataSet.Width, dataSet.Height,
                                Reconstruct(r, sample))
         IN DrawCells(both, k + 1, rows, cols, r, picks)

\* Every point passed to img.Set with a sample's or a reconstruction's pixel.
SetPoints(rows, cols) ==
    UNION {BitmapPoints(CellX(dataSet.Width, CellCol(k, cols)),
                        CellY(dataSet.Height, CellRow(k, cols)),
                        dataSet.Width, dataSet.Height)
           \cup
           BitmapPoints(CellX(dataSet.Width, CellCol(k, cols))
                          + dataSet.Width + smallGridSpace,
                        CellY(dataSet.Height, CellRow(k, cols)),
                        dataSet.Width, dataSet.Height) :
           k \in 0..(rows * cols - 1)}

\* image.NewRGBA and the loops that set every pixel to gridBackground.
Background(rows, cols) ==
    [p \in (0..(ImageWidth(dataSet.Width, cols) - 1))
           \X (0..(ImageHeight(dataSet.Height, rows) - 1)) |-> gridBackground]

\* rand.Intn(0) panics; a reconstruction shorter than the bitmap is an index
\* out of range at its first missing pixel.
ReconstructionGrid(maxCells) ==
    /\ pc = "loaded"
    /\ \E rows \in 0..maxCells, cols \in 0..maxCells, r \in Reconstructors :
         /\ rows * cols <= maxCells
         /\ IF rows * cols > 0 /\ Len(dataSet.Samples) = 0
            THEN /\ pc' = "panic"
                 /\ panicValue' = Panic("invalid argument to Intn", "")
                 /\ grid' = NoValue
            ELSE IF /\ rows * cols > 0
                    /\ r = "short"
                    /\ dataSet.Width * dataSet.Height > 0
            THEN /\ pc' = "panic"
                 /\ panicValue' = Panic("runtime error: ", "index out of range")
                 /\ grid' = NoValue
            ELSE \E picks \in [1..(rows * cols) -> 1..Len(dataSet.Samples)] :
                   /\ grid' = [kind |-> "grid", rows |-> rows, cols |-> cols,
                               r |-> r, picks |-> picks,
                               Pix |-> DrawCells(Background(rows, cols), 0,
                                                 rows, cols, r, picks),
                               sets |-> SetPoints(rows, cols),
                               nsets |-> rows * cols * 2 * dataSet.Width
                                           * dataSet.Height]
                   /\ UNCHANGED <<pc, panicValue>>
    /\ heap' = DataSetHeap
    /\ ret' = NoValue
    /\ UNCHANGED <<imgStream, lblStream, intensities, w, h, labels, dataSet,
                   writes>>

(***************************************************************************)
(* The views specification: a well-formed pair of files is loaded, then    *)
(* the views are called in any order and the caller writes into what they  *)
(* returned.                                                               *)
(***************************************************************************)
ViewImageStreams ==
    {ImageFile(<<0, 0, 8, 3>>, n, wd, 1, 1) :
       n \in 1..ViewMaxN, wd \in 1..ViewMaxW}

\* The label files that hold exactly n labels.
ExactLabelStreams(n) == {LabelFile(n, start, n) : start \in 1..Len(LabelVals)}

InitViews == InitWith(ViewImageStreams)

NextViews ==
    \/ LoadReadImages
    \/ LoadReadLabels(ExactLabelStreams(Len(intensities)))
    \/ LoadAssemble
    \/ IntensityVectors
    \/ LabelVectors
    \/ NumCorrect
    \/ CorrectnessHistogram
    \/ ReconstructionGrid(1)
    \/ CallerWrite

SpecViews == InitViews /\ [][NextViews]_vars

(***************************************************************************)
(* The grid specification: a well-formed pair of files is loaded, then     *)
(* ReconstructionGrid is called.                                           *)
(***************************************************************************)
GridMaxN == 2
GridMaxW == 2
GridMaxH == 1

GridImageStreams ==
    {ImageFile(<<0, 0, 8, 3>>, n, GridMaxW, GridMaxH, start) :
       n \in 0..GridMaxN, start \in 1..MaxStart}

InitGrid == InitWith(GridImageStreams)

NextGrid ==
    \/ LoadReadImages
    \/ LoadReadLabels({LabelFile(Len(intensities), 1, Len(intensities))})
    \/ LoadAssemble
    \/ grid = NoValue /\ ReconstructionGrid(MaxCells)

SpecGrid == InitGrid /\ [][NextGrid]_vars

(***************************************************************************)
(* What the claims speak of, read off the streams themselves.              *)
(***************************************************************************)
\* The big-endian 32-bit integer at byte offset off of s.
FieldAt(s, off) ==
    s[off + 1] * 16777216 + s[off + 2] * 65536 + s[off + 3] * 256 + s[off + 4]

DeclaredN == FieldAt(imgStream, 4)
DeclaredW == FieldAt(imgStream, 8)
DeclaredH == FieldAt(imgStream, 12)

\* The image stream is its whole header and exactly N records of W*H bytes.
WellFormedImages ==
    /\ Len(imgStream) >= 16
    /\ Len(imgStream) = 16 + DeclaredN * DeclaredW * DeclaredH

\* The image stream ends before the last record its header declares does.
CutImages ==
    \/ Len(imgStream) < 16
    \/ Len(imgStream) < 16 + DeclaredN * DeclaredW * DeclaredH

\* The label bytes the label stream holds after its 8 skipped bytes.
LabelBytes == Len(lblStream) - 8

ImagesRead == pc # "start"
ImagesFailed ==
    pc = "panic" /\ panicValue.msg = "failed to read images: "
LabelsFailed ==
    pc = "panic" /\ panicValue.msg = "failed to read labels: "
LabelsRead == pc \in {"assemble", "loaded"} \/ LabelsFailed

\* Record i of the image stream, and its byte k.
RecordByte(i, k) == imgStream[16 + (i - 1) * DeclaredW * DeclaredH + k]

(***************************************************************************)
(* C1: a well-formed image stream of N records of W*H bytes and a label    *)
(* stream of 8 skipped bytes and N labels load, and the DataSet has N      *)
(* samples, Width W, Height H and W*H intensities in every sample.         *)
(***************************************************************************)
C1_WellFormedLoads ==
    WellFormedImages =>
      /\ ~ImagesFailed
      /\ ImagesRead =>
           /\ Len(intensities) = DeclaredN
           /\ w = DeclaredW
           /\ h = DeclaredH
      /\ LabelsRead /\ LabelBytes = DeclaredN => pc # "panic"
      /\ pc = "loaded" =>
           /\ Len(dataSet.Samples) = DeclaredN
           /\ dataSet.Width = DeclaredW
           /\ dataSet.Height = DeclaredH
           /\ \A i \in 1..Len(dataSet.Samples) :
                Len(heap[dataSet.Samples[i].Intensities])
                  = DeclaredW * DeclaredH

C1_Witness ==
    /\ pc = "loaded"
    /\ WellFormedImages
    /\ LabelBytes = DeclaredN
    /\ DeclaredN = 2
    /\ DeclaredW = 1
    /\ DeclaredH = 2
    /\ Len(dataSet.Samples) = 2

(***************************************************************************)
(* C2: an image stream cut anywhere before its last declared record is     *)
(* complete makes readIntensities fail with nil results, width 0 and       *)
(* height 0; it never succeeds with fewer or partly filled records.        *)
(***************************************************************************)
C2_CutStreamFails ==
    ImagesRead /\ CutImages =>
      /\ ImagesFailed
      /\ intensities = <<>>
      /\ w = 0
      /\ h = 0

C2_Witness ==
    /\ ImagesFailed
    /\ intensities = <<>>
    /\ Len(imgStream) >= 16
    /\ Len(imgStream) > 16 + DeclaredW * DeclaredH
    /\ Len(imgStream) < 16 + DeclaredN * DeclaredW * DeclaredH

(***************************************************************************)
(* C3 as claimed: a label stream whose header count, or whose number of    *)
(* label bytes, differs from the number N of image records makes the       *)
(* construction fail, with fewer labels and with more labels alike.  Any   *)
(* panic is taken for the failure here.                                    *)
(***************************************************************************)
C3_MismatchFails ==
    /\ LabelsRead
    /\ Len(lblStream) >= 8
    /\ \/ FieldAt(lblStream, 4) # Len(intensities)
       \/ LabelBytes # Len(intensities)
    => pc = "panic"

(***************************************************************************)
(* C3 as amended: once the images are read, the construction fails exactly *)
(* when the label stream holds fewer than N label bytes after its 8        *)
(* skipped bytes, and the failure is io.EOF from readLabels; with N or     *)
(* more label bytes it succeeds whatever count the header declares, and    *)
(* the labels are the first N label bytes.                                 *)
(***************************************************************************)
C3_OnlyShortLabelsFail ==
    LabelsRead =>
      IF LabelBytes < Len(intensities)
      THEN /\ LabelsFailed
           /\ panicValue.err = "EOF"
           /\ labels = <<>>
      ELSE /\ pc # "panic"
           /\ labels = SubSeq(lblStream, 9, 8 + Len(intensities))

C3_Witness ==
    /\ pc = "loaded"
    /\ Len(intensities) = 2
    /\ LabelBytes = 3
    /\ FieldAt(lblStream, 4) = 1
    /\ Len(dataSet.Samples) = 2

(***************************************************************************)
(* C4: in a loaded DataSet, sample i holds the bytes of the i-th image     *)
(* record in stream order (byte k of the record is pixel k, normalized)    *)
(* and the i-th label byte of the label stream as its Label.               *)
(***************************************************************************)
C4_PositionalPairing ==
    pc = "loaded" =>
      \A i \in 1..Len(dataSet.Samples) :
        /\ dataSet.Samples[i].Label = lblStream[8 + i]
        /\ Len(heap[dataSet.Samples[i].Intensities]) = DeclaredW * DeclaredH
        /\ \A k \in 1..(DeclaredW * DeclaredH) :
             /\ intensities[i][k] = RecordByte(i, k)
             /\ heap[dataSet.Samples[i].Intensities][k]
                  = Normalized[RecordByte(i, k)]

C4_Witness ==
    /\ pc = "loaded"
    /\ Len(dataSet.Samples) = 2
    /\ dataSet.Width * dataSet.Height = 4
    /\ intensities = <<<<0, 255, 128, 64>>, <<200, 10, 33, 67>>>>
    /\ dataSet.Samples[1].Label = 3
    /\ dataSet.Samples[2].Label = 7

(***************************************************************************)
(* C5 as claimed: the value of a read failure identifies the stream and    *)
(* the index of the record at which the read failed: two image streams     *)
(* that fail with the same value fail at the same record.                  *)
(***************************************************************************)
\* The record of image stream s that is incomplete, -1 within the header.
FailIndex(s) ==
    IF Len(s) < 16 THEN -1
    ELSE (Len(s) - 16) \div (FieldAt(s, 8) * FieldAt(s, 12))

C5_ValueNamesRecord ==
    ImagesFailed =>
      \A s \in ImageStreams :
        LET r == readIntensities(s)
        IN r.err = panicValue.err => FailIndex(s) = FailIndex(imgStream)

(***************************************************************************)
(* C5 as amended: every read failure before the expected bytes are there   *)
(* makes loadDataSet panic with a value that names the stream ("failed to  *)
(* read images: " or "failed to read labels: ") followed by the reader's   *)
(* error: io.EOF when the stream ends at the skipped field's end or        *)
(* before it, or between two header integers, io.ErrUnexpectedEOF when it  *)
(* ends inside a header integer, "not enough data for image" when it ends  *)
(* before a record is complete, io.EOF at a missing label.  The value      *)
(* holds no record index.                                                  *)
(***************************************************************************)
C5_FailureNamesStream ==
    /\ ImagesRead /\ CutImages =>
         /\ ImagesFailed
         /\ panicValue.err =
              IF Len(imgStream) < 4 THEN "EOF"
              ELSE IF Len(imgStream) < 16
              THEN IF Len(imgStream) % 4 = 0 THEN "EOF" ELSE "unexpected EOF"
              ELSE "not enough data for image"
    /\ ImagesFailed => CutImages
    /\ LabelsRead /\ LabelBytes < Len(intensities) =>
         /\ LabelsFailed
         /\ panicValue.err = "EOF"
    /\ LabelsFailed => LabelBytes < Len(intensities)
    /\ pc = "panic" => DOMAIN panicValue = {"kind", "msg", "err"}

C5_Witness ==
    /\ ImagesFailed
    /\ panicValue.err = "not enough data for image"
    /\ Len(imgStream) >= 16
    /\ DeclaredN = 2
    /\ FailIndex(imgStream) = 1

(***************************************************************************)
(* C10: the decode does not depend on the skipped leading fields: with     *)
(* the first 4 bytes of the image stream, or the first 8 bytes of the      *)
(* label stream (its declared count among them), replaced, the records,    *)
(* dimensions, labels and errors are the same; and the first integer read  *)
(* is the one at offset 4, the first label the byte at offset 8.           *)
(***************************************************************************)
SkippedImageFields == ImageMagics \cup {<<0, 0, 0, 0>>, <<255, 255, 255, 255>>}

SkippedLabelFields ==
    {magic \o Uint32Bytes(n) :
       magic \in {LabelMagic, <<255, 255, 255, 255>>}, n \in 0..(MaxN + 1)}

C10_SkippedFieldsIgnored ==
    /\ ImagesRead /\ Len(imgStream) >= 4 =>
         \A f \in SkippedImageFields :
           readIntensities(f \o SubSeq(imgStream, 5, Len(imgStream)))
             = [results |-> intensities, width |-> w, height |-> h,
                err |-> IF ImagesFailed THEN panicValue.err ELSE "nil"]
    /\ ImagesRead /\ ~ImagesFailed =>
         /\ Len(intensities) = DeclaredN
         /\ w = DeclaredW
    /\ LabelsRead /\ Len(lblStream) >= 8 =>
         \A f \in SkippedLabelFields :
           readLabels(f \o SubSeq(lblStream, 9, Len(lblStream)),
                      Len(intensities))
             = [res |-> labels,
                err |-> IF LabelsFailed THEN panicValue.err ELSE "nil"]
    /\ LabelsRead /\ ~LabelsFailed /\ labels # <<>> =>
         labels[1] = lblStream[9]

C10_Witness ==
    /\ pc = "loaded"
    /\ SubSeq(imgStream, 1, 4) = <<1, 2, 3, 4>>
    /\ Len(intensities) = 2
    /\ FieldAt(lblStream, 4) = 3
    /\ labels = <<7, 0>>

(***************************************************************************)
(* C6 as claimed: for every sample of every DataSet that loading can       *)
(* produce, LabelVectors completes and returns at the sample's index a     *)
(* sequence of length 10 whose entry at index Label is 1 and whose other   *)
(* nine entries are 0.                                                     *)
(***************************************************************************)
OneHot(vec, label) ==
    /\ Len(vec) = 10
    /\ label \in 0..9
    /\ vec[label + 1] = F64One
    /\ \A k \in 1..10 : k # label + 1 => vec[k] = F64Zero

C6_LabelVectorsOneHot ==
    [][LabelVectors =>
         /\ pc' = "loaded"
         /\ ret'.kind = "vectors"
         /\ Len(ret'.val) = Len(dataSet.Samples)
         /\ \A i \in 1..Len(dataSet.Samples) :
              OneHot(heap'[ret'.val[i]], dataSet.Samples[i].Label)]_vars

(***************************************************************************)
(* C7: ReconstructionGrid returns a canvas of width                        *)
(* gridSpacing*(cols+1) + cols*(2*W + smallGridSpace) and height           *)
(* gridSpacing*(rows+1) + rows*H; every sample pixel it writes lies inside *)
(* the canvas; the original and reconstruction rectangles of all cells     *)
(* (original at (x,y), reconstruction at (x+W+smallGridSpace, y)) are      *)
(* pairwise disjoint and are what is written; every pixel outside them has *)
(* the background color.                                                   *)
(***************************************************************************)
GridDone == grid.kind = "grid"

\* The rectangle of width W and height H with its top left corner at (x, y).
Rectangle(x, y) ==
    {<<px, py>> : px \in x..(x + dataSet.Width - 1),
                  py \in y..(y + dataSet.Height - 1)}

ClaimX(col) ==
    gridSpacing * (col + 1) + col * (2 * dataSet.Width + smallGridSpace)
ClaimY(row) == gridSpacing * (row + 1) + row * dataSet.Height

\* The rectangles of the grid: 0 for the original, 1 for the reconstruction.
ClaimRect(row, col, which) ==
    Rectangle(ClaimX(col) + which * (dataSet.Width + smallGridSpace),
              ClaimY(row))

ClaimRectIds ==
    (0..(grid.rows - 1)) \X (0..(grid.cols - 1)) \X {0, 1}

ClaimCanvas ==
    (0..(gridSpacing * (grid.cols + 1)
           + grid.cols * (2 * dataSet.Width + smallGridSpace) - 1))
    \X (0..(gridSpacing * (grid.rows + 1) + grid.rows * dataSet.Height - 1))

C7_GridLayout ==
    GridDone =>
      LET covered == UNION {ClaimRect(id[1], id[2], id[3]) : id \in ClaimRectIds}
      IN /\ DOMAIN grid.Pix = ClaimCanvas
         /\ grid.sets \subseteq ClaimCanvas
         /\ grid.sets = covered
         /\ grid.nsets = Cardinality(grid.sets)
         /\ \A a, b \in ClaimRectIds :
              a # b =>
                ClaimRect(a[1], a[2], a[3]) \cap ClaimRect(b[1], b[2], b[3]) = {}
         /\ \A p \in ClaimCanvas :
              IF p \in covered
              THEN /\ grid.Pix[p] # gridBackground
                   /\ grid.Pix[p].R = grid.Pix[p].G
                   /\ grid.Pix[p].G = grid.Pix[p].B
              ELSE grid.Pix[p] = gridBackground

C7_Witness ==
    /\ GridDone
    /\ grid.rows = 2
    /\ grid.cols = 2
    /\ dataSet.Width = 2
    /\ Len(dataSet.Samples) = 2
    /\ grid.Pix[<<4, 4>>] # gridBackground
    /\ grid.Pix[<<3, 4>>] = gridBackground
    /\ grid.Pix[<<23, 9>>] = gridBackground

(***************************************************************************)
(* C8 as claimed: every drawn pixel of normalized value v is written with  *)
(* luma 255 - round(v*255), and an original pixel of raw byte b with luma  *)
(* 255 - b.  The reconstructions of the model are v = b/255, v = b/510 and *)
(* v = 1, and round is to the nearest integer, halves away from zero.      *)
(***************************************************************************)
\* What cell k shows at (rx, ry): the raw byte b of the sample drawn there.
RawByte(k, rx, ry) == intensities[grid.picks[k + 1]][ry * dataSet.Width + rx + 1]

\* Where cell k puts pixel (rx, ry) of its original (0) or reconstruction (1).
DrawnAt(k, rx, ry, which) ==
    <<ClaimX(k % grid.cols) + which * (dataSet.Width + smallGridSpace) + rx,
      ClaimY(k \div grid.cols) + ry>>

\* round(v*255) and floor(v*255) for the reconstruction of a pixel of byte b.
RoundedTimes255(r, b) ==
    IF r = "identity" THEN b ELSE IF r = "halve" THEN (b + 1) \div 2 ELSE 255
FloorTimes255(r, b) ==
    IF r = "identity" THEN b ELSE IF r = "halve" THEN b \div 2 ELSE 255

DrawnPixels ==
    (0..(grid.rows * grid.cols - 1)) \X (0..(dataSet.Width - 1))
                                     \X (0..(dataSet.Height - 1))

C8_RoundedLuma ==
    GridDone =>
      \A d \in DrawnPixels :
        /\ grid.Pix[DrawnAt(d[1], d[2], d[3], 0)]
             = Gray(255 - RawByte(d[1], d[2], d[3]))
        /\ grid.Pix[DrawnAt(d[1], d[2], d[3], 1)]
             = Gray(255 - RoundedTimes255(grid.r, RawByte(d[1], d[2], d[3])))

(***************************************************************************)
(* C8 as amended: every drawn pixel of normalized value v in [0,1] is      *)
(* written with luma 255 - floor(v*255), the conversion to uint8           *)
(* truncating; an original pixel of raw byte b (v = b/255) is drawn with   *)
(* luma 255 - b, so normalization followed by rendering recovers the byte. *)
(***************************************************************************)
C8_TruncatedLuma ==
    GridDone =>
      \A d \in DrawnPixels :
        /\ grid.Pix[DrawnAt(d[1], d[2], d[3], 0)]
             = Gray(255 - RawByte(d[1], d[2], d[3]))
        /\ grid.Pix[DrawnAt(d[1], d[2], d[3], 1)]
             = Gray(255 - FloorTimes255(grid.r, RawByte(d[1], d[2], d[3])))

C8_Witness ==
    /\ GridDone
    /\ grid.r = "halve"
    /\ grid.rows * grid.cols = 2
    /\ grid.picks[1] = 1
    /\ intensities[1] = <<0, 255>>
    /\ grid.Pix[<<4, 4>>] = Gray(255)
    /\ grid.Pix[<<5, 4>>] = Gray(0)
    /\ grid.Pix[<<9, 4>>] = Gray(128)

(***************************************************************************)
(* C9 as claimed: after any calls of the views and of ReconstructionGrid,  *)
(* and after any writes of the caller into the vectors they returned,      *)
(* every sample's Intensities and Label and the Width and Height are what  *)
(* they were at construction.                                              *)
(***************************************************************************)
DataSetValue ==
    [Samples |-> [i \in 1..Len(dataSet.Samples) |->
                    [Intensities |-> SampleVec(i),
                     Label |-> dataSet.Samples[i].Label]],
     Width |-> dataSet.Width, Height |-> dataSet.Height]

ConstructedValue ==
    [Samples |-> [i \in 1..Len(intensities) |->
                    [Intensities |-> Floats(intensities[i]),
                     Label |-> labels[i]]],
     Width |-> w, Height |-> h]

C9_Immutable == pc = "loaded" => DataSetValue = ConstructedValue

(***************************************************************************)
(* C9 as amended: the calls IntensityVectors, LabelVectors, NumCorrect,    *)
(* CorrectnessHistogram and ReconstructionGrid, and the caller's writes    *)
(* into vectors LabelVectors returned, leave every sample's Intensities    *)
(* and Label and the Width and Height as they are; the vectors             *)
(* IntensityVectors returns are the samples' own Intensities, and a write  *)
(* into one of them, the only step that changes a sample, stores the       *)
(* written value in that sample's Intensities.                             *)
(***************************************************************************)
C9_OnlySharedWritesChange ==
    [][pc = "loaded" =>
         /\ DataSetValue' # DataSetValue
              => writes' # writes /\ ret.from = "IntensityVectors"
         /\ writes' # writes /\ ret.from = "IntensityVectors"
              => \E i \in 1..Len(dataSet.Samples) :
                   \E k \in 1..Len(SampleVec(i)) :
                     /\ heap'[ret.val[i]][k] = F64Half(F64One)
                     /\ DataSetValue' =
                          [DataSetValue EXCEPT
                             !.Samples[i].Intensities[k] = F64Half(F64One)]]_vars

C9_Witness ==
    /\ pc = "loaded"
    /\ writes = 1
    /\ ret.kind = "vectors"
    /\ ret.from = "LabelVectors"
    /\ Len(ret.val) = 2
    /\ ~OneHot(heap[ret.val[2]], dataSet.Samples[2].Label)
    /\ DataSetValue = ConstructedValue

====
